---- MODULE Spec2Model ----
(***************************************************************************)
(* Candidate reconciliation of the AzooKey immutable converter             *)
(* (src/src/converter/azookey_immutable_converter.cc).                     *)
(*                                                                         *)
(* A std::string is a sequence of bytes (0..255); positions are 0-based as *)
(* in the source, so byte i of s is s[i + 1].                              *)
(***************************************************************************)
EXTENDS Integers, Sequences, FiniteSets, TLC

VARIABLES
  utf8_str,      \* Character Indexer: the string argument
  char_count,    \* Character Indexer: the char_count / skip_char_count argument
  idx,           \* Character Indexer: results of the calls made on (utf8_str, char_count)
  segments,      \* the caller's Segments: the sequence of its conversion segments
  call,          \* the call made on segments: arguments and outcome
  dll_file,      \* azookey-engine.dll as installed: found or not, and its exports
  loader,        \* AzooKeyDllLoader::GetInstance(): the process-wide loader
  converters,    \* the AzooKeyImmutableConverter objects
  engine,        \* the engine session behind the loaded entry points
  registry,      \* HKCU\Software\Mozc values written by the constructor
  blob,          \* ParseJsonCandidateArray: the json argument and how it was made
  parser,        \* ParseJsonCandidateArray: pos, the loop it is in, result, info
  iterations     \* ParseJsonCandidateArray: loop iterations run so far

idxVars == <<utf8_str, char_count, idx>>
recVars == <<segments, call>>
engVars == <<dll_file, loader, converters, engine, registry>>
parVars == <<blob, parser, iterations>>
vars == <<utf8_str, char_count, idx, segments, call,
          dll_file, loader, converters, engine, registry,
          blob, parser, iterations>>

(***************************************************************************)
(* Bytes and character literals                                            *)
(***************************************************************************)
Lower == <<"a","b","c","d","e","f","g","h","i","j","k","l","m",
           "n","o","p","q","r","s","t","u","v","w","x","y","z">>
Upper == <<"A","B","C","D","E","F","G","H","I","J","K","L","M",
           "N","O","P","Q","R","S","T","U","V","W","X","Y","Z">>
Digit == <<"0","1","2","3","4","5","6","7","8","9">>

Range(f) == { f[i] : i \in DOMAIN f }
IndexOf(seq, x) == CHOOSE i \in DOMAIN seq : seq[i] = x

\* The byte value of an ASCII character literal of the source.
Ord(ch) ==
  CASE ch \in Range(Lower) -> 96 + IndexOf(Lower, ch)
    [] ch \in Range(Upper) -> 64 + IndexOf(Upper, ch)
    [] ch \in Range(Digit) -> 47 + IndexOf(Digit, ch)
    [] ch = "\t" -> 9
    [] ch = "\n" -> 10
    [] ch = "\r" -> 13
    [] ch = " "  -> 32
    [] ch = "\"" -> 34
    [] ch = ","  -> 44
    [] ch = ":"  -> 58
    [] ch = "["  -> 91
    [] ch = "\\" -> 92
    [] ch = "]"  -> 93
    [] ch = "{"  -> 123
    [] ch = "}"  -> 125

\* A string literal as the bytes of a std::string.
Str(chars) == [i \in DOMAIN chars |-> Ord(chars[i])]

Min(a, b) == IF a < b THEN a ELSE b

\* c & mask for a mask made of the high bits of a byte (0x80, 0xE0, 0xF0, 0xF8).
HighBits(c, mask) == (c \div (256 - mask)) * (256 - mask)

(***************************************************************************)
(* Character Indexer                                                       *)
(***************************************************************************)
\* The number of bytes the scan advances over the character led by byte c.
Utf8Advance(c) ==
  IF HighBits(c, 128) = 0 THEN 1
  ELSE IF HighBits(c, 224) = 192 THEN 2
  ELSE IF HighBits(c, 240) = 224 THEN 3
  ELSE IF HighBits(c, 248) = 240 THEN 4
  ELSE 1

RECURSIVE CountLoop(_, _, _)
CountLoop(s, i, count) ==
  IF i < Len(s) THEN CountLoop(s, i + Utf8Advance(s[i + 1]), count + 1)
  ELSE count

CountUtf8Characters(s) == CountLoop(s, 0, 0)

\* The byte position reached after at most n characters; it can pass the end
\* of s when s ends inside a multi-byte sequence.
RECURSIVE BytePos(_, _, _, _)
BytePos(s, n, byte_pos, chars_processed) ==
  IF byte_pos < Len(s) /\ chars_processed < n
  THEN BytePos(s, n, byte_pos + Utf8Advance(s[byte_pos + 1]), chars_processed + 1)
  ELSE byte_pos

\* std::string::substr(pos, len): throws std::out_of_range when pos > size(),
\* otherwise the bytes [pos, min(pos + len, size())).
Substr(s, pos, len) ==
  IF pos > Len(s) THEN [thrown |-> TRUE, value |-> <<>>]
  ELSE [thrown |-> FALSE,
        value |-> SubSeq(s, pos + 1, Min(pos + len, Len(s)))]

\* std::string::substr(pos): to the end of the string.
SubstrFrom(s, pos) == Substr(s, pos, Len(s))

\* Mutant: char_count taken as a number of bytes.
GetUtf8PrefixBytewise(s, n) == Substr(s, 0, n)

GetUtf8Prefix(s, n) == Substr(s, 0, BytePos(s, n, 0, 0))

GetUtf8Suffix(s, n) == SubstrFrom(s, BytePos(s, n, 0, 0))

(***************************************************************************)
(* Structured Candidate Parser                                             *)
(***************************************************************************)
ChTab == Ord("\t")
ChNewline == Ord("\n")
ChReturn == Ord("\r")
ChSpace == Ord(" ")
ChQuote == Ord("\"")
ChComma == Ord(",")
ChColon == Ord(":")
ChOpenBracket == Ord("[")
ChBackslash == Ord("\\")
ChCloseBracket == Ord("]")
ChOpenBrace == Ord("{")
ChCloseBrace == Ord("}")
ChLowerN == Ord("n")
ChLowerT == Ord("t")
ChLowerR == Ord("r")
ChLowerU == Ord("u")
ChZero == Ord("0")
ChNine == Ord("9")
KeyText == Str(<<"t","e","x","t">>)
KeyCorrespondingCount ==
  Str(<<"c","o","r","r","e","s","p","o","n","d","i","n","g","C","o","u","n","t">>)

\* int is 32 bits wide.
IntMax == (((2^30) - 1) * 2) + 1
IntMin == (-IntMax) - 1

\* The int with the bits of hi * 2^16 + lo (two's complement).
IntOfHalves(hi, lo) == ((IF hi >= 2^15 THEN hi - 2^16 ELSE hi) * (2^16)) + lo

\* value * 10 + digit reduced modulo 2^32, computed on 16-bit halves.
WrapMulAdd(value, digit) ==
  LET hi == (value \div (2^16)) % (2^16)
      lo == value % (2^16)
      lo10 == (lo * 10) + digit
  IN IntOfHalves(((hi * 10) + (lo10 \div (2^16))) % (2^16), lo10 % (2^16))

\* value * 10, or the sum value * 10 + digit, is not representable.
MulAddOverflows(value, digit) ==
  \/ value > IntMax \div 10
  \/ value <= IntMin \div 10
  \/ (value * 10) > IntMax - digit

\* Signed overflow is undefined: the outcomes are the two's-complement wrap
\* of the usual builds, or either end of the range.
IntOverflowOutcomes == {"wrap", "min", "max"}

\* value = value * 10 + (json[pos] - '0')
MulAdd(value, digit, ub) ==
  IF ~MulAddOverflows(value, digit) THEN (value * 10) + digit
  ELSE CASE ub = "wrap" -> WrapMulAdd(value, digit)
         [] ub = "min" -> IntMin
         [] ub = "max" -> IntMax

\* struct CandidateInfo
CandidateInfo(text, corresponding_count) ==
  [text |-> text, corresponding_count |-> corresponding_count]

\* while (pos < json.size() && json[pos] is one of chars) ++pos;
RECURSIVE SkipChars(_, _, _)
SkipChars(json, pos, chars) ==
  IF pos < Len(json) /\ json[pos + 1] \in chars
  THEN SkipChars(json, pos + 1, chars)
  ELSE pos

SkipWhitespace(json, pos) ==
  SkipChars(json, pos, {ChSpace, ChTab, ChNewline, ChReturn})

\* Read key: the bytes up to the closing quote, which is skipped when present.
RECURSIVE ReadKeyLoop(_, _, _)
ReadKeyLoop(json, pos, key) ==
  IF pos < Len(json) /\ json[pos + 1] # ChQuote
  THEN ReadKeyLoop(json, pos + 1, Append(key, json[pos + 1]))
  ELSE [pos |-> IF pos < Len(json) THEN pos + 1 ELSE pos, key |-> key]

\* The string-value loop body without the skip of the four hex digits.
TextEscapeKeepsHex(json, pos) ==
  IF json[pos + 1] = ChBackslash /\ pos + 1 < Len(json)
  THEN LET e == json[pos + 2]
       IN CASE e = ChLowerN -> [pos |-> pos + 1, add |-> <<ChNewline>>]
            [] e = ChLowerT -> [pos |-> pos + 1, add |-> <<ChTab>>]
            [] e = ChLowerR -> [pos |-> pos + 1, add |-> <<ChReturn>>]
            [] e = ChBackslash -> [pos |-> pos + 1, add |-> <<ChBackslash>>]
            [] e = ChQuote -> [pos |-> pos + 1, add |-> <<ChQuote>>]
            [] e = ChLowerU -> [pos |-> pos + 1, add |-> <<>>]
            [] OTHER -> [pos |-> pos + 1, add |-> <<e>>]
  ELSE [pos |-> pos, add |-> <<json[pos + 1]>>]

\* The string-value loop body with the four hex digits skipped without the
\* test that they are inside the blob.
TextEscapeSkipsUnguarded(json, pos) ==
  IF json[pos + 1] = ChBackslash /\ pos + 1 < Len(json) /\ json[pos + 2] = ChLowerU
  THEN [pos |-> (pos + 1) + 4, add |-> <<>>]
  ELSE TextEscapeKeepsHex(json, pos)

\* The body of the string-value loop for one position: the bytes appended to
\* value and the position of the last byte consumed.
TextEscape(json, pos) ==
  IF json[pos + 1] = ChBackslash /\ pos + 1 < Len(json)
  THEN LET e == json[pos + 2]
       IN CASE e = ChLowerN -> [pos |-> pos + 1, add |-> <<ChNewline>>]
            [] e = ChLowerT -> [pos |-> pos + 1, add |-> <<ChTab>>]
            [] e = ChLowerR -> [pos |-> pos + 1, add |-> <<ChReturn>>]
            [] e = ChBackslash -> [pos |-> pos + 1, add |-> <<ChBackslash>>]
            [] e = ChQuote -> [pos |-> pos + 1, add |-> <<ChQuote>>]
            [] e = ChLowerU ->
                 [pos |-> IF (pos + 1) + 4 < Len(json) THEN (pos + 1) + 4 ELSE pos + 1,
                  add |-> <<>>]
            [] OTHER -> [pos |-> pos + 1, add |-> <<e>>]
  ELSE [pos |-> pos, add |-> <<json[pos + 1]>>]

RECURSIVE ReadTextLoop(_, _, _)
ReadTextLoop(json, pos, value) ==
  IF pos < Len(json) /\ json[pos + 1] # ChQuote
  THEN LET step == TextEscape(json, pos)
       IN ReadTextLoop(json, step.pos + 1, value \o step.add)
  ELSE [pos |-> IF pos < Len(json) THEN pos + 1 ELSE pos, value |-> value]

\* key == "text": a quoted value replaces info.text; anything else is left
\* where it is.
ReadTextValue(json, pos, info) ==
  IF pos < Len(json) /\ json[pos + 1] = ChQuote
  THEN LET r == ReadTextLoop(json, pos + 1, <<>>)
       IN [pos |-> r.pos, info |-> [info EXCEPT !.text = r.value]]
  ELSE [pos |-> pos, info |-> info]

RECURSIVE ReadIntLoop(_, _, _, _)
ReadIntLoop(json, pos, value, ub) ==
  IF pos < Len(json) /\ json[pos + 1] >= ChZero /\ json[pos + 1] <= ChNine
  THEN ReadIntLoop(json, pos + 1,
                   MulAdd(value, json[pos + 1] - ChZero, ub), ub)
  ELSE [pos |-> pos, value |-> value]

\* key == "correspondingCount"
ReadCountValue(json, pos, info, ub) ==
  LET r == ReadIntLoop(json, pos, 0, ub)
  IN [pos |-> r.pos, info |-> [info EXCEPT !.corresponding_count = r.value]]

RECURSIVE SkipStringLoop(_, _)
SkipStringLoop(json, pos) ==
  IF pos < Len(json) /\ json[pos + 1] # ChQuote
  THEN SkipStringLoop(json,
         (IF json[pos + 1] = ChBackslash /\ pos + 1 < Len(json) THEN pos + 1 ELSE pos) + 1)
  ELSE IF pos < Len(json) THEN pos + 1 ELSE pos

RECURSIVE SkipBareLoop(_, _)
SkipBareLoop(json, pos) ==
  IF pos < Len(json) /\ json[pos + 1] # ChComma /\ json[pos + 1] # ChCloseBrace
  THEN SkipBareLoop(json, pos + 1)
  ELSE pos

\* Skip unknown value
SkipUnknownValue(json, pos) ==
  IF pos < Len(json) /\ json[pos + 1] = ChQuote
  THEN SkipStringLoop(json, pos + 1)
  ELSE SkipBareLoop(json, pos)

\* After the object loop, keeping the record only when its closing brace
\* was found.
CloseObjectNeedsBrace(json, st, pos) ==
  LET closed == pos < Len(json) /\ json[pos + 1] = ChCloseBrace
  IN [pos |-> IF closed THEN pos + 1 ELSE pos,
      phase |-> "array",
      result |-> IF closed /\ st.info.text # <<>> THEN Append(st.result, st.info)
                 ELSE st.result,
      info |-> st.info]

\* After the object loop: skip the closing brace and keep the record when
\* its text is not empty; the scan is back at the array level.
CloseObject(json, st, pos) ==
  [pos |-> IF pos < Len(json) /\ json[pos + 1] = ChCloseBrace THEN pos + 1 ELSE pos,
   phase |-> "array",
   result |-> IF st.info.text # <<>> THEN Append(st.result, st.info) ELSE st.result,
   info |-> st.info]

\* The loop over the array's elements without the ++pos that skips a comma.
ArrayStepCommaStuck(json, st) ==
  IF ~(st.pos < Len(json)) THEN [st EXCEPT !.phase = "done"]
  ELSE LET pos == SkipWhitespace(json, st.pos)
       IN IF pos >= Len(json) \/ json[pos + 1] = ChCloseBracket
          THEN [st EXCEPT !.pos = pos, !.phase = "done"]
          ELSE IF json[pos + 1] = ChComma
          THEN [st EXCEPT !.pos = pos]
          ELSE IF json[pos + 1] # ChOpenBrace
          THEN [st EXCEPT !.pos = pos, !.phase = "done"]
          ELSE [st EXCEPT !.pos = pos + 1, !.phase = "object",
                          !.info = CandidateInfo(<<>>, 0)]

\* One iteration of the loop over the array's elements.
ArrayStep(json, st) ==
  IF ~(st.pos < Len(json)) THEN [st EXCEPT !.phase = "done"]
  ELSE LET pos == SkipWhitespace(json, st.pos)
       IN IF pos >= Len(json) \/ json[pos + 1] = ChCloseBracket
          THEN [st EXCEPT !.pos = pos, !.phase = "done"]
          ELSE IF json[pos + 1] = ChComma
          THEN [st EXCEPT !.pos = pos + 1]
          ELSE IF json[pos + 1] # ChOpenBrace
          THEN [st EXCEPT !.pos = pos, !.phase = "done"]
          ELSE [st EXCEPT !.pos = pos + 1, !.phase = "object",
                          !.info = CandidateInfo(<<>>, 0)]

\* One iteration of the loop over an object's contents, the exit of the loop
\* and the code after it included.
ObjectStep(json, st, ub) ==
  IF ~(st.pos < Len(json) /\ json[st.pos + 1] # ChCloseBrace)
  THEN CloseObject(json, st, st.pos)
  ELSE LET pos == SkipWhitespace(json, st.pos)
       IN IF pos >= Len(json) \/ json[pos + 1] = ChCloseBrace
          THEN CloseObject(json, st, pos)
          ELSE IF json[pos + 1] = ChComma
          THEN [st EXCEPT !.pos = pos + 1]
          ELSE IF json[pos + 1] # ChQuote
          THEN CloseObject(json, st, pos)
          ELSE LET k == ReadKeyLoop(json, pos + 1, <<>>)
                   vpos == SkipChars(json, k.pos, {ChSpace, ChColon})
               IN IF k.key = KeyText
                  THEN LET r == ReadTextValue(json, vpos, st.info)
                       IN [st EXCEPT !.pos = r.pos, !.info = r.info]
                  ELSE IF k.key = KeyCorrespondingCount
                  THEN LET r == ReadCountValue(json, vpos, st.info, ub)
                       IN [st EXCEPT !.pos = r.pos, !.info = r.info]
                  ELSE [st EXCEPT !.pos = SkipUnknownValue(json, vpos)]

ParserStep(json, st, ub) ==
  IF st.phase = "array" THEN ArrayStep(json, st) ELSE ObjectStep(json, st, ub)

RECURSIVE ParserRun(_, _, _)
ParserRun(json, st, ub) ==
  IF st.phase = "done" THEN st ELSE ParserRun(json, ParserStep(json, st, ub), ub)

ParserStart ==
  [pos |-> 1, phase |-> "array", result |-> <<>>, info |-> CandidateInfo(<<>>, 0)]

\* The state in which the scan loop is entered, or skipped when the blob is
\* empty or does not start with '['.
ParserEntry(json) ==
  IF json = <<>> \/ json[1] # ChOpenBracket
  THEN [ParserStart EXCEPT !.pos = 0, !.phase = "done"]
  ELSE ParserStart

ParseJsonCandidateArray(json, ub) == ParserRun(json, ParserEntry(json), ub).result

\* No call of ParseJsonCandidateArray is followed step by step.
NoScan == /\ blob = [json |-> <<>>, doc |-> <<>>, well_formed |-> FALSE, ub |-> "wrap"]
          /\ parser = ParserEntry(<<>>)
          /\ iterations = 0

(***************************************************************************)
(* Segments (converter/segments.h)                                         *)
(***************************************************************************)
\* Segment::clear_candidates and Segment::clear_meta_candidates
clear_candidates(segment) == [segment EXCEPT !.candidates = <<>>]
clear_meta_candidates(segment) == [segment EXCEPT !.meta_candidates = <<>>]

\* Segments::clear_conversion_segments: the collection loses every segment
\* ("clear the entire owning collection of segments").
clear_conversion_segments(segs) == <<>>

\* Segments::add_segment: one more segment at the end of the collection.
add_segment(segs, segment) == Append(segs, segment)

\* The segment made by add_segment, set_segment_type(FREE) and set_key(key)
NewSegment(key) ==
  [key |-> key, segment_type |-> "FREE", candidates |-> <<>>, meta_candidates |-> <<>>]

(***************************************************************************)
(* Reconciliation Algorithm and Segment Writer                             *)
(***************************************************************************)
\* Sentinel resolution: the coverage a raw candidate claims.
CandidateCharCount(info, key_char_count) ==
  IF info.corresponding_count > 0 THEN info.corresponding_count ELSE key_char_count

Fallback(key, key_char_count) == CandidateInfo(key, key_char_count)

\* The result of a loop that GetUtf8Suffix can leave by an exception.
Processed(list) == [thrown |-> FALSE, list |-> list]
Thrown == [thrown |-> TRUE, list |-> <<>>]

\* Mutant: shorter candidates are kept without the rest of the reading.
ProcessForSegmentLoopNoExtend(candidates, i, key, key_char_count, processed_candidates) ==
  Processed(SelectSeq(candidates,
                      LAMBDA info : CandidateCharCount(info, key_char_count) <= key_char_count))

\* ParseCandidatesForSegment: exact matches are kept, shorter ones extended,
\* longer ones skipped.
RECURSIVE ProcessForSegmentLoop(_, _, _, _, _)
ProcessForSegmentLoop(candidates, i, key, key_char_count, processed_candidates) ==
  IF i > Len(candidates) THEN Processed(processed_candidates)
  ELSE LET info == candidates[i]
           candidate_char_count == CandidateCharCount(info, key_char_count)
       IN IF candidate_char_count = key_char_count
          THEN ProcessForSegmentLoop(candidates, i + 1, key, key_char_count,
                                     Append(processed_candidates, info))
          ELSE IF candidate_char_count < key_char_count
          THEN LET remaining == GetUtf8Suffix(key, candidate_char_count)
               IN IF remaining.thrown THEN Thrown
                  ELSE ProcessForSegmentLoop(candidates, i + 1, key, key_char_count,
                         Append(processed_candidates,
                                CandidateInfo(info.text \o remaining.value, key_char_count)))
          ELSE ProcessForSegmentLoop(candidates, i + 1, key, key_char_count,
                                     processed_candidates)

\* Mutant: the policy of ParseCandidatesForSegment, which skips longer candidates.
ProcessLoopSkipsLonger(candidates, i, key, key_char_count, processed_candidates) ==
  ProcessForSegmentLoop(candidates, i, key, key_char_count, processed_candidates)

\* ParseCandidates: shorter candidates are extended, every candidate is kept.
RECURSIVE ProcessLoop(_, _, _, _, _)
ProcessLoop(candidates, i, key, key_char_count, processed_candidates) ==
  IF i > Len(candidates) THEN Processed(processed_candidates)
  ELSE LET info == candidates[i]
           candidate_char_count == CandidateCharCount(info, key_char_count)
       IN IF candidate_char_count < key_char_count
          THEN LET remaining == GetUtf8Suffix(key, candidate_char_count)
               IN IF remaining.thrown THEN Thrown
                  ELSE ProcessLoop(candidates, i + 1, key, key_char_count,
                         Append(processed_candidates,
                                CandidateInfo(info.text \o remaining.value, key_char_count)))
          ELSE ProcessLoop(candidates, i + 1, key, key_char_count,
                           Append(processed_candidates, info))

\* Mutant: shorter candidates pass the filter too.
MatchingLoopKeepsShorter(candidates, i, key_char_count, matching_candidates) ==
  SelectSeq(candidates,
            LAMBDA info : CandidateCharCount(info, key_char_count) <= key_char_count)

\* ParseCandidatesForResizedSegment: only exact matches are kept.
RECURSIVE MatchingLoop(_, _, _, _)
MatchingLoop(candidates, i, key_char_count, matching_candidates) ==
  IF i > Len(candidates) THEN matching_candidates
  ELSE LET info == candidates[i]
           candidate_char_count == CandidateCharCount(info, key_char_count)
       IN MatchingLoop(candidates, i + 1, key_char_count,
            IF candidate_char_count = key_char_count
            THEN Append(matching_candidates, info)
            ELSE matching_candidates)

\* Mutant: no fallback.
WithFallbackMissing(list, key, key_char_count) == list

\* If no candidates, add the key itself as fallback.
WithFallback(list, key, key_char_count) ==
  IF list = <<>> THEN <<Fallback(key, key_char_count)>> ELSE list

\* Mutant: the consumed size is the byte count of the key.
NewCandidateByteSize(key, info, base_cost, key_char_count) ==
  [key |-> key, value |-> info.text,
   content_key |-> key, content_value |-> info.text,
   cost |-> base_cost, wcost |-> base_cost, structure_cost |-> 0,
   consumed_key_size |-> Len(key), lid |-> 0, rid |-> 0]

\* The converter::Candidate the writer loop fills in.
NewCandidate(key, info, base_cost, key_char_count) ==
  [key |-> key, value |-> info.text,
   content_key |-> key, content_value |-> info.text,
   cost |-> base_cost, wcost |-> base_cost, structure_cost |-> 0,
   consumed_key_size |-> key_char_count, lid |-> 0, rid |-> 0]

\* Mutant: each candidate is inserted before the ones already added.
AddCandidatesInFront(segment, infos, i, key, key_char_count, base_cost) ==
  [segment EXCEPT !.candidates =
     [j \in 1..Len(infos) |->
        NewCandidate(key, infos[(Len(infos) + 1) - j], base_cost + (100 * (j - 1)),
                     key_char_count)] \o @]

\* The writer loop: add_candidate for each info, the cost growing by 100.
RECURSIVE AddCandidates(_, _, _, _, _, _)
AddCandidates(segment, infos, i, key, key_char_count, base_cost) ==
  IF i > Len(infos) THEN segment
  ELSE AddCandidates(
         [segment EXCEPT !.candidates =
            Append(@, NewCandidate(key, infos[i], base_cost, key_char_count))],
         infos, i + 1, key, key_char_count, base_cost + 100)

(***************************************************************************)
(* AzooKeyDllLoader and the engine behind it                               *)
(***************************************************************************)
EssentialProcs == {"Initialize", "AppendText", "GetCandidates"}
OptionalProcs == {"Shutdown", "ClearText", "FreeString"}
ZenzaiProcs == {"SetZenzaiEnabled", "SetZenzaiInferenceLimit", "SetZenzaiWeightPath"}
LoaderProcs == EssentialProcs \cup OptionalProcs \cup ZenzaiProcs

\* The loader before GetInstance() has constructed it.
NoLoader == [constructed |-> FALSE, dll_handle |-> FALSE, procs |-> {}]

\* UnloadDll: the handle and every function pointer are null.
UnloadDll == [constructed |-> TRUE, dll_handle |-> FALSE, procs |-> {}]

\* LoadDll: LoadLibraryW, GetProcAddress for each entry point, and UnloadDll
\* when an essential one is missing.  procs holds the non-null pointers.
LoadDll(file) ==
  IF ~file.found THEN UnloadDll
  ELSE LET procs == file.exports \cap LoaderProcs
       IN IF ~(EssentialProcs \subseteq procs) THEN UnloadDll
          ELSE [constructed |-> TRUE, dll_handle |-> TRUE, procs |-> procs]

\* GetInstance(): the function-local static is constructed by the first call.
GetInstance(ldr, file) == IF ldr.constructed THEN ldr ELSE LoadDll(file)

IsLoaded(ldr) == ldr.dll_handle

\* The engine: its session, the text appended since the last ClearText, the
\* number of returned buffers not yet released, the Zenzai settings, and the
\* entry points called by the running (or last) constructor, destructor or
\* Convert, each with the session state it found.
NoEngine ==
  [session |-> "none", text |-> <<>>, buffers |-> 0,
   zenzai |-> [enabled |-> FALSE, limit |-> 0, weight_path |-> <<>>],
   calls |-> <<>>]

Called(eng, fn) == [eng EXCEPT !.calls = Append(@, [fn |-> fn, session |-> eng.session])]

EngineInitialize(eng) == [Called(eng, "Initialize") EXCEPT !.session = "initialized"]
EngineShutdown(eng) == [Called(eng, "Shutdown") EXCEPT !.session = "shutdown"]
EngineClearText(eng) == [Called(eng, "ClearText") EXCEPT !.text = <<>>]
EngineAppendText(eng, text) == [Called(eng, "AppendText") EXCEPT !.text = @ \o text]
\* GetCandidates hands a buffer to the caller unless it returns a null pointer.
EngineGetCandidates(eng, response) ==
  [Called(eng, "GetCandidates") EXCEPT !.buffers = IF response.null THEN @ ELSE @ + 1]
EngineFreeString(eng) == [Called(eng, "FreeString") EXCEPT !.buffers = @ - 1]
EngineSetZenzaiEnabled(eng, enabled) ==
  [Called(eng, "SetZenzaiEnabled") EXCEPT !.zenzai.enabled = enabled]
EngineSetZenzaiInferenceLimit(eng, limit) ==
  [Called(eng, "SetZenzaiInferenceLimit") EXCEPT !.zenzai.limit = limit]
EngineSetZenzaiWeightPath(eng, path) ==
  [Called(eng, "SetZenzaiWeightPath") EXCEPT !.zenzai.weight_path = path]

\* No converter object.
NoConverter == [alive |-> FALSE, initialized_ |-> FALSE]

NoRegistry == [written |-> FALSE]

(***************************************************************************)
(* Bounds and inputs of the Character Indexer                              *)
(***************************************************************************)
MaxStrLen == 3
MaxCharCount == 4

\* One byte of each class the scan distinguishes: ASCII, the lead bytes of
\* 2-, 3- and 4-byte sequences, and a continuation byte.
IndexerBytes == {97, 195, 227, 240, 129}

RECURSIVE StringsUpTo(_, _)
StringsUpTo(alphabet, n) ==
  IF n = 0 THEN {<<>>}
  ELSE LET shorter == StringsUpTo(alphabet, n - 1)
       IN shorter \cup { Append(s, b) : s \in shorter, b \in alphabet }

IndexerStrings == StringsUpTo(IndexerBytes, MaxStrLen)

None == [done |-> FALSE]
Done(v) == [done |-> TRUE, val |-> v]

IdxNoCalls ==
  [count |-> None, prefix |-> None, suffix |-> None, prefix_count |-> None]

\* The caller's arguments: any string and any count within the bounds.
NoCall == [op |-> "none"]

IdxInit ==
  /\ utf8_str \in IndexerStrings
  /\ char_count \in 0..MaxCharCount
  /\ idx = IdxNoCalls
  /\ segments = <<>>
  /\ call = NoCall
  /\ dll_file = [found |-> FALSE, exports |-> {}]
  /\ loader = NoLoader
  /\ converters = <<>>
  /\ engine = NoEngine
  /\ registry = NoRegistry
  /\ NoScan

CallCount ==
  /\ ~idx.count.done
  /\ idx' = [idx EXCEPT !.count = Done(CountUtf8Characters(utf8_str))]
  /\ UNCHANGED <<utf8_str, char_count, recVars, engVars, parVars>>

CallPrefix ==
  /\ ~idx.prefix.done
  /\ idx' = [idx EXCEPT !.prefix = Done(GetUtf8Prefix(utf8_str, char_count))]
  /\ UNCHANGED <<utf8_str, char_count, recVars, engVars, parVars>>

CallSuffix ==
  /\ ~idx.suffix.done
  /\ idx' = [idx EXCEPT !.suffix = Done(GetUtf8Suffix(utf8_str, char_count))]
  /\ UNCHANGED <<utf8_str, char_count, recVars, engVars, parVars>>

\* CountUtf8Characters applied to the value GetUtf8Prefix returned.
CallCountOfPrefix ==
  /\ idx.prefix.done
  /\ ~idx.prefix.val.thrown
  /\ ~idx.prefix_count.done
  /\ idx' = [idx EXCEPT !.prefix_count = Done(CountUtf8Characters(idx.prefix.val.value))]
  /\ UNCHANGED <<utf8_str, char_count, recVars, engVars, parVars>>

IdxNext ==
  \/ CallCount
  \/ CallPrefix
  \/ CallSuffix
  \/ CallCountOfPrefix

SpecIndexer == IdxInit /\ [][IdxNext]_vars

(***************************************************************************)
(* Bounds and inputs of the reconciliation calls                           *)
(***************************************************************************)
MaxCands == 2       \* raw candidates in a generated blob
MaxCount == 3       \* largest correspondingCount in a generated blob
MaxKeyChars == 2    \* characters in a generated reading
MaxSegments == 2    \* conversion segments the caller holds before the call

Quoted(s) == <<ChQuote>> \o s \o <<ChQuote>>

RECURSIVE Decimal(_)
Decimal(n) == IF n < 10 THEN <<ChZero + n>> ELSE Decimal(n \div 10) \o <<ChZero + (n % 10)>>

\* The texts of the generated candidates, by position, so that the
\* candidates of one blob are told apart: "x", a 3-byte character, "y", "z".
CandTexts == << Str(<<"x">>), <<230, 157, 177>>, Str(<<"y">>), Str(<<"z">>) >>
TextAt(i) == CandTexts[((i - 1) % Len(CandTexts)) + 1]

\* {"text":"<text>","correspondingCount":<digits>}, or {"text":"<text>"}
\* when there are no digits.
RecordJson(text, digits) ==
  <<ChOpenBrace>> \o Quoted(KeyText) \o <<ChColon>> \o Quoted(text)
  \o (IF digits = <<>> THEN <<>>
      ELSE <<ChComma>> \o Quoted(KeyCorrespondingCount) \o <<ChColon>> \o digits)
  \o <<ChCloseBrace>>

CountDigits == {<<>>} \cup { Decimal(c) : c \in 0..MaxCount }

RECURSIVE JoinRecords(_, _)
JoinRecords(counts, i) ==
  IF i > Len(counts) THEN <<>>
  ELSE (IF i > 1 THEN <<ChComma, ChSpace>> ELSE <<>>)
       \o RecordJson(TextAt(i), counts[i]) \o JoinRecords(counts, i + 1)

\* New format: [{"text": "candidate1", "correspondingCount": 6}, ...]
ArrayJson(counts) == <<ChOpenBracket>> \o JoinRecords(counts, 1) \o <<ChCloseBracket>>

WellFormedBlobs ==
  { ArrayJson(counts) :
      counts \in UNION { [1..n -> CountDigits] : n \in 0..MaxCands } }

\* [{"text": "abc  cut before the closing quote, brace and bracket.
TruncatedBlob ==
  <<ChOpenBracket, ChOpenBrace>> \o Quoted(KeyText) \o <<ChColon, ChSpace, ChQuote>>
  \o Str(<<"a","b","c">>)

\* Blobs the engine is not expected to send: empty, not an array, truncated
\* inside a text, the legacy array of strings, a record without text, and
\* counts that do not fit an int.
OtherBlobs ==
  { <<>>,
    Str(<<"x">>),
    TruncatedBlob,
    <<ChOpenBracket>> \o Quoted(Str(<<"a">>)) \o <<ChCloseBracket>>,
    <<ChOpenBracket, ChOpenBrace>> \o Quoted(KeyCorrespondingCount) \o <<ChColon>>
       \o Decimal(1) \o <<ChCloseBrace, ChCloseBracket>>,
    <<ChOpenBracket>> \o RecordJson(TextAt(1), Str(<<"4","2","9","4","9","6","7","2","9","7">>)) \o <<ChCloseBracket>>,
    <<ChOpenBracket>> \o RecordJson(TextAt(1), Str(<<"2","1","4","7","4","8","3","6","4","8">>)) \o <<ChCloseBracket>> }

Blobs == WellFormedBlobs \cup OtherBlobs

\* The characters of the generated readings: "a" and a 3-byte hiragana.
ReadingChars == { Str(<<"a">>), <<227, 129, 130>> }

RECURSIVE Concats(_, _)
Concats(chars, n) ==
  IF n = 0 THEN {<<>>}
  ELSE LET shorter == Concats(chars, n - 1)
       IN shorter \cup { s \o c : s \in shorter, c \in chars }

\* Readings, two of them cut inside the 3-byte character.
Readings == Concats(ReadingChars, MaxKeyChars) \cup { <<227>>, <<97, 227, 129>> }

\* A candidate left in a segment by an earlier conversion.
StaleCandidate(i) ==
  [key |-> Str(<<"o","l","d">>), value |-> <<ChZero + i>>,
   content_key |-> Str(<<"o","l","d">>), content_value |-> <<ChZero + i>>,
   cost |-> 7, wcost |-> 7, structure_cost |-> 3,
   consumed_key_size |-> 9, lid |-> 1, rid |-> 1]

StaleSegment(i) ==
  [key |-> Str(<<"o","l","d">>), segment_type |-> "FIXED_VALUE",
   candidates |-> <<StaleCandidate(i)>>, meta_candidates |-> <<StaleCandidate(i)>>]

InitialSegments == { [i \in 1..n |-> StaleSegment(i)] : n \in 0..MaxSegments }

\* A run of 10 digits or more: the shortest that can overflow an int.
HasLongDigitRun(json) ==
  \E i \in 1..(Len(json) - 9) :
    \A j \in 0..9 : json[i + j] >= ChZero /\ json[i + j] <= ChNine

OverflowOutcomesFor(json) ==
  IF HasLongDigitRun(json) THEN IntOverflowOutcomes ELSE {"wrap"}

(***************************************************************************)
(* The three reconciliation calls                                          *)
(***************************************************************************)
\* ParseCandidatesForSegment without the two clear calls.
SegmentAfterParseMerges(candidates, key, segment) ==
  LET key_char_count == CountUtf8Characters(key)
      p == ProcessForSegmentLoop(candidates, 1, key, key_char_count, <<>>)
  IN IF p.thrown THEN [thrown |-> TRUE, segment |-> segment]
     ELSE [thrown |-> FALSE,
           segment |-> AddCandidates(segment, WithFallback(p.list, key, key_char_count),
                                     1, key, key_char_count, 0)]

\* ParseCandidatesForSegment on one segment: the segment after the call, or
\* thrown when GetUtf8Suffix threw before the segment was touched.
SegmentAfterParse(candidates, key, segment) ==
  LET key_char_count == CountUtf8Characters(key)
      p == ProcessForSegmentLoop(candidates, 1, key, key_char_count, <<>>)
  IN IF p.thrown THEN [thrown |-> TRUE, segment |-> segment]
     ELSE [thrown |-> FALSE,
           segment |-> AddCandidates(clear_meta_candidates(clear_candidates(segment)),
                                     WithFallback(p.list, key, key_char_count),
                                     1, key, key_char_count, 0)]

\* ParseCandidates without clear_conversion_segments.
SegmentsAfterParseCandidatesKeepsOld(candidates, key, segs) ==
  LET key_char_count == CountUtf8Characters(key)
      p == ProcessLoop(candidates, 1, key, key_char_count, <<>>)
  IN IF p.thrown THEN [thrown |-> TRUE, segments |-> segs, ret |-> FALSE]
     ELSE LET processed_candidates == WithFallback(p.list, key, key_char_count)
          IN [thrown |-> FALSE,
              segments |-> add_segment(segs,
                                       AddCandidates(NewSegment(key), processed_candidates,
                                                     1, key, key_char_count, 0)),
              ret |-> processed_candidates # <<>>]

\* ParseCandidates: the collection after the call and the value returned.
SegmentsAfterParseCandidates(candidates, key, segs) ==
  LET key_char_count == CountUtf8Characters(key)
      p == ProcessLoop(candidates, 1, key, key_char_count, <<>>)
  IN IF p.thrown THEN [thrown |-> TRUE, segments |-> segs, ret |-> FALSE]
     ELSE LET processed_candidates == WithFallback(p.list, key, key_char_count)
          IN [thrown |-> FALSE,
              segments |-> add_segment(clear_conversion_segments(segs),
                                       AddCandidates(NewSegment(key), processed_candidates,
                                                     1, key, key_char_count, 0)),
              ret |-> processed_candidates # <<>>]

\* ParseCandidatesForResizedSegment without the test for an empty
\* collection: a first segment is made when there is none.
SegmentsAfterResizedNoCheck(candidates, key, segs) ==
  LET key_char_count == CountUtf8Characters(key)
      matching_candidates ==
        WithFallback(MatchingLoop(candidates, 1, key_char_count, <<>>), key, key_char_count)
      held == IF Len(segs) = 0 THEN <<NewSegment(key)>> ELSE segs
  IN [segments |->
        [held EXCEPT ![1] =
           AddCandidates(clear_meta_candidates(clear_candidates(@)),
                         matching_candidates, 1, key, key_char_count, 0)],
      ret |-> matching_candidates # <<>>]

\* ParseCandidatesForResizedSegment clearing the candidates of every segment.
SegmentsAfterResizedClearsAll(candidates, key, segs) ==
  LET key_char_count == CountUtf8Characters(key)
      matching_candidates ==
        WithFallback(MatchingLoop(candidates, 1, key_char_count, <<>>), key, key_char_count)
      cleared == [i \in DOMAIN segs |-> clear_meta_candidates(clear_candidates(segs[i]))]
  IN IF Len(segs) = 0 THEN [segments |-> segs, ret |-> FALSE]
     ELSE [segments |->
             [cleared EXCEPT ![1] =
                AddCandidates(@, matching_candidates, 1, key, key_char_count, 0)],
           ret |-> matching_candidates # <<>>]

\* ParseCandidatesForResizedSegment: the collection after the call and the
\* value returned.
SegmentsAfterResized(candidates, key, segs) ==
  LET key_char_count == CountUtf8Characters(key)
      matching_candidates ==
        WithFallback(MatchingLoop(candidates, 1, key_char_count, <<>>), key, key_char_count)
  IN IF Len(segs) = 0 THEN [segments |-> segs, ret |-> FALSE]
     ELSE [segments |->
             [segs EXCEPT ![1] =
                AddCandidates(clear_meta_candidates(clear_candidates(@)),
                              matching_candidates, 1, key, key_char_count, 0)],
           ret |-> matching_candidates # <<>>]

Init ==
  /\ utf8_str = <<>>
  /\ char_count = 0
  /\ idx = IdxNoCalls
  /\ segments \in InitialSegments
  /\ call = NoCall
  /\ dll_file = [found |-> FALSE, exports |-> {}]
  /\ loader = NoLoader
  /\ converters = <<>>
  /\ engine = NoEngine
  /\ registry = NoRegistry
  /\ NoScan

ParseCandidatesForSegment ==
  /\ call.op = "none"
  /\ \E json \in Blobs, key \in Readings, target \in DOMAIN segments :
       \E ub \in OverflowOutcomesFor(json) :
         LET candidates == ParseJsonCandidateArray(json, ub)
             r == SegmentAfterParse(candidates, key, segments[target])
         IN /\ segments' = [segments EXCEPT ![target] = r.segment]
            /\ call' = [op |-> "ParseCandidatesForSegment", json |-> json, key |-> key,
                        candidates |-> candidates, target |-> target,
                        pre |-> segments, thrown |-> r.thrown, ret |-> TRUE]
  /\ UNCHANGED <<idxVars, engVars, parVars>>

ParseCandidates ==
  /\ call.op = "none"
  /\ \E json \in Blobs, key \in Readings :
       \E ub \in OverflowOutcomesFor(json) :
         LET candidates == ParseJsonCandidateArray(json, ub)
             r == SegmentsAfterParseCandidates(candidates, key, segments)
         IN /\ segments' = r.segments
            /\ call' = [op |-> "ParseCandidates", json |-> json, key |-> key,
                        candidates |-> candidates, target |-> 1,
                        pre |-> segments, thrown |-> r.thrown, ret |-> r.ret]
  /\ UNCHANGED <<idxVars, engVars, parVars>>

ParseCandidatesForResizedSegment ==
  /\ call.op = "none"
  /\ \E json \in Blobs, key \in Readings :
       \E ub \in OverflowOutcomesFor(json) :
         LET candidates == ParseJsonCandidateArray(json, ub)
             r == SegmentsAfterResized(candidates, key, segments)
         IN /\ segments' = r.segments
            /\ call' = [op |-> "ParseCandidatesForResizedSegment", json |-> json,
                        key |-> key, candidates |-> candidates, target |-> 1,
                        pre |-> segments, thrown |-> FALSE, ret |-> r.ret]
  /\ UNCHANGED <<idxVars, engVars, parVars>>

Next ==
  \/ ParseCandidatesForSegment
  \/ ParseCandidates
  \/ ParseCandidatesForResizedSegment

Spec == Init /\ [][Next]_vars

(***************************************************************************)
(* Properties of the reconciliation calls                                  *)
(***************************************************************************)
FullSegment == "ParseCandidatesForSegment"
SingleKey == "ParseCandidates"
ResizedSegment == "ParseCandidatesForResizedSegment"

\* The call wrote a candidate list (ResizedSegment writes nothing when the
\* collection has no segment).
Wrote == call.op # "none" /\ ~call.thrown /\ call.ret
Written == segments[call.target].candidates

\* K, and the resolved coverage c of a raw candidate.
K == CountUtf8Characters(call.key)
Coverage(r) == IF r.corresponding_count > 0 THEN r.corresponding_count ELSE K

Survives(mode, r) ==
  CASE mode = FullSegment -> Coverage(r) <= K
    [] mode = SingleKey -> TRUE
    [] mode = ResizedSegment -> Coverage(r) = K

\* The positions of the raw candidates that survive, in input order.
Survivors(mode, raw) ==
  SelectSeq([i \in 1..Len(raw) |-> i], LAMBDA i : Survives(mode, raw[i]))

IsPrefix(p, s) == Len(p) <= Len(s) /\ SubSeq(s, 1, Len(p)) = p

IsIdentityList(list) ==
  /\ Len(list) = 1
  /\ list[1].value = call.key
  /\ list[1].consumed_key_size = K

\* C1: in every mode the candidate list written is never empty, and when the
\* parser yields no raw candidate or filtering removes them all it is exactly
\* one candidate whose text is the reading and whose coverage is K.
C1_NeverEmpty ==
  /\ call.op # "none" => ~call.thrown
  /\ Wrote =>
       /\ Len(Written) >= 1
       /\ (\A i \in DOMAIN call.candidates : ~Survives(call.op, call.candidates[i]))
            => IsIdentityList(Written)

\* C1 witness: FullSegment with raw candidates that all over-cover the reading.
C1_Witness ==
  /\ call.op = FullSegment /\ Wrote
  /\ call.candidates # <<>>
  /\ \A i \in DOMAIN call.candidates : Coverage(call.candidates[i]) > K
  /\ K = 2 /\ Len(call.key) = 4
  /\ IsIdentityList(Written)

\* C2: in FullSegment mode a raw candidate with c = K keeps its text, one
\* with c < K becomes text + Suffix(key, c) with coverage K, and one with
\* c > K is not in the output.
C2_FullSegment ==
  (call.op = FullSegment /\ Wrote) =>
    LET raw == call.candidates
        kept == Survivors(FullSegment, raw)
    IN /\ kept = <<>> => IsIdentityList(Written)
       /\ kept # <<>> =>
            /\ Len(Written) = Len(kept)
            /\ \A j \in DOMAIN kept :
                 LET r == raw[kept[j]]
                 IN /\ Written[j].consumed_key_size = K
                    /\ Coverage(r) = K => Written[j].value = r.text
                    /\ Coverage(r) < K =>
                         /\ ~GetUtf8Suffix(call.key, Coverage(r)).thrown
                         /\ Written[j].value =
                              r.text \o GetUtf8Suffix(call.key, Coverage(r)).value

\* C2 witness: a reading of two characters, the first candidate covering one
\* (extended by the 3-byte second character), the second covering three.
C2_Witness ==
  /\ call.op = FullSegment /\ Wrote
  /\ call.key = <<97, 227, 129, 130>>
  /\ Len(call.candidates) = 2
  /\ call.candidates[1].corresponding_count = 1
  /\ call.candidates[2].corresponding_count = 3
  /\ Len(Written) = 1
  /\ Written[1].value = call.candidates[1].text \o <<227, 129, 130>>

\* C3: in SingleKey mode no raw candidate is discarded: n >= 1 raw candidates
\* give exactly n written candidates, and a candidate with c # K is written
\* as text + Suffix(key, c), which for c > K adds nothing.
C3_SingleKey ==
  (call.op = SingleKey /\ Wrote /\ call.candidates # <<>>) =>
    LET raw == call.candidates
    IN /\ Len(Written) = Len(raw)
       /\ \A i \in DOMAIN raw :
            LET c == Coverage(raw[i])
                suffix == GetUtf8Suffix(call.key, c)
            IN /\ c < K => ~suffix.thrown
               /\ (c # K /\ ~suffix.thrown) => Written[i].value = raw[i].text \o suffix.value
               /\ (c > K /\ suffix.thrown) => Written[i].value = raw[i].text

\* C3 witness: two raw candidates, the second over-covering a one-character
\* reading, both written.
C3_Witness ==
  /\ call.op = SingleKey /\ Wrote
  /\ Len(call.candidates) = 2
  /\ K = 1
  /\ call.candidates[2].corresponding_count = 3
  /\ Len(Written) = 2
  /\ Written[2].value = call.candidates[2].text

\* C4: in ResizedSegment mode the output is exactly the raw candidates with
\* c = K, texts unchanged; candidates with c < K or c > K are discarded.
C4_ResizedSegment ==
  (call.op = ResizedSegment /\ Wrote) =>
    LET raw == call.candidates
        kept == Survivors(ResizedSegment, raw)
    IN /\ kept = <<>> => IsIdentityList(Written)
       /\ kept # <<>> =>
            /\ Len(Written) = Len(kept)
            /\ \A j \in DOMAIN kept :
                 /\ Written[j].value = raw[kept[j]].text
                 /\ Written[j].consumed_key_size = K

\* C4 witness: a two-character reading, a candidate covering one character
\* that is discarded and one covering two that is kept as it is.
C4_Witness ==
  /\ call.op = ResizedSegment /\ Wrote
  /\ K = 2
  /\ Len(call.candidates) = 2
  /\ call.candidates[1].corresponding_count = 1
  /\ call.candidates[2].corresponding_count = 2
  /\ Len(Written) = 1
  /\ Written[1].value = call.candidates[2].text

\* C5: in all three modes the written candidates that come from raw
\* candidates are in the order of the parsed input.
C5_StableOrder ==
  (Wrote /\ Survivors(call.op, call.candidates) # <<>>) =>
    \E f \in [DOMAIN Written -> DOMAIN call.candidates] :
      /\ \A j1, j2 \in DOMAIN Written : j1 < j2 => f[j1] < f[j2]
      /\ \A j \in DOMAIN Written : IsPrefix(call.candidates[f[j]].text, Written[j].value)

\* C5 witness: two survivors with different texts, written in input order.
C5_Witness ==
  /\ Wrote
  /\ call.op = FullSegment
  /\ Len(call.candidates) = 2
  /\ Len(Written) = 2
  /\ Written[1].value # Written[2].value
  /\ IsPrefix(call.candidates[1].text, Written[1].value)
  /\ IsPrefix(call.candidates[2].text, Written[2].value)

\* C6: in every mode the i-th record written (from 0) has key = content_key =
\* reading, value = content_value, cost = 100 * i, structure_cost = 0 and
\* consumed length K, the character count of the reading.
C6_Records ==
  Wrote =>
    \A j \in DOMAIN Written :
      /\ Written[j].key = call.key
      /\ Written[j].content_key = call.key
      /\ Written[j].value = Written[j].content_value
      /\ Written[j].cost = 100 * (j - 1)
      /\ Written[j].structure_cost = 0
      /\ Written[j].consumed_key_size = K

\* C6 witness: two records for a reading whose byte count is not its
\* character count.
C6_Witness ==
  /\ Wrote
  /\ call.op = ResizedSegment
  /\ Len(Written) = 2
  /\ Len(call.key) = 6 /\ K = 2
  /\ Written[2].cost = 100

\* C7: for every byte string s and every n >= 0, Prefix(s, n) and Suffix(s, n)
\* both return a value without failing, and Prefix(s, n) + Suffix(s, n) = s.
C7_PrefixSuffixConcat ==
  (idx.prefix.done /\ idx.suffix.done) =>
     /\ ~idx.prefix.val.thrown
     /\ ~idx.suffix.val.thrown
     /\ idx.prefix.val.value \o idx.suffix.val.value = utf8_str

\* C8: CharacterCount(Prefix(s, n)) = min(n, CharacterCount(s)), and
\* Prefix(s, n) = s whenever n >= CharacterCount(s).
C8_PrefixCount ==
  (idx.count.done /\ idx.prefix.done /\ idx.prefix_count.done) =>
     /\ idx.prefix_count.val = Min(char_count, idx.count.val)
     /\ (char_count >= idx.count.val => idx.prefix.val.value = utf8_str)

\* C8 witness: a string with a multi-byte character cut by a prefix shorter
\* than the string, with all three calls made.
C8_Witness ==
  /\ idx.count.done /\ idx.prefix.done /\ idx.prefix_count.done
  /\ idx.count.val = 2
  /\ char_count = 1
  /\ Len(utf8_str) = 3
  /\ idx.prefix_count.val = 1

(***************************************************************************)
(* What the reconciliation calls leave in the collection                   *)
(***************************************************************************)
\* The candidate list a call writes into a segment that held nothing.
FreshlyWritten ==
  CASE call.op = FullSegment ->
         SegmentAfterParse(call.candidates, call.key, NewSegment(call.key)).segment.candidates
    [] call.op = SingleKey ->
         SegmentsAfterParseCandidates(call.candidates, call.key, <<>>).segments[1].candidates
    [] call.op = ResizedSegment ->
         SegmentsAfterResized(call.candidates, call.key,
                              <<NewSegment(call.key)>>).segments[1].candidates

\* No candidate of the list was in the collection before the call.
NoneLeftOver(list) ==
  \A j \in DOMAIN list :
    \A i \in DOMAIN call.pre :
      \A k \in DOMAIN call.pre[i].candidates : list[j] # call.pre[i].candidates[k]

\* C11: ResizedSegment on a collection with zero conversion segments returns
\* false and leaves the collection exactly as it was (and it returns false
\* in no other case).
C11_ResizedNoSegments ==
  call.op = ResizedSegment =>
    /\ Len(call.pre) = 0 => (~call.ret /\ segments = call.pre)
    /\ ~call.ret => Len(call.pre) = 0

\* C11 witness: ResizedSegment with a blob of two candidates on an empty
\* collection.
C11_Witness ==
  /\ call.op = ResizedSegment
  /\ call.pre = <<>>
  /\ Len(call.candidates) = 2
  /\ ~call.ret
  /\ segments = <<>>

\* C12: ResizedSegment on n >= 1 segments rewrites only segment 0: its prior
\* candidates are removed and replaced by the reconciled list with costs
\* restarting at 0; the number of segments and the readings and candidate
\* lists of segments 1..n-1 are unchanged.
C12_ResizedFrame ==
  (call.op = ResizedSegment /\ Len(call.pre) >= 1) =>
    /\ Len(segments) = Len(call.pre)
    /\ \A i \in 2..Len(call.pre) : segments[i] = call.pre[i]
    /\ segments[1].key = call.pre[1].key
    /\ Written = FreshlyWritten
    /\ NoneLeftOver(Written)
    /\ Len(Written) >= 1 /\ Written[1].cost = 0

\* C12 witness: two segments holding candidates, two matching candidates
\* written to the first, the second as it was.
C12_Witness ==
  /\ call.op = ResizedSegment
  /\ Len(call.pre) = 2
  /\ call.pre[1].candidates # <<>> /\ call.pre[2].candidates # <<>>
  /\ Len(Written) = 2
  /\ Written[2].cost = 100
  /\ segments[2] = call.pre[2]

\* C13: after a SingleKey call, whatever the collection held before, it is
\* exactly one segment whose reading is the full input key and whose
\* candidates are the reconciled list; no earlier segment survives.
C13_SingleSegment ==
  (call.op = SingleKey /\ ~call.thrown) =>
    /\ Len(segments) = 1
    /\ segments[1].key = call.key
    /\ segments[1].meta_candidates = <<>>
    /\ Written = FreshlyWritten
    /\ NoneLeftOver(Written)
    /\ \A i \in DOMAIN call.pre : segments[1] # call.pre[i]

\* C13 witness: a collection of two segments replaced by one segment with
\* two candidates.
C13_Witness ==
  /\ call.op = SingleKey /\ ~call.thrown
  /\ Len(call.pre) = 2
  /\ Len(segments) = 1
  /\ segments[1].key = call.key
  /\ Len(Written) = 2

\* C14: in FullSegment mode the candidate list of the target segment after
\* the call depends on the blob and the reading only: every prior candidate
\* is removed, none is merged, and no other segment is modified.
C14_FullSegmentFrame ==
  (call.op = FullSegment /\ ~call.thrown) =>
    /\ Len(segments) = Len(call.pre)
    /\ \A i \in DOMAIN call.pre : i # call.target => segments[i] = call.pre[i]
    /\ Written = FreshlyWritten
    /\ NoneLeftOver(Written)

\* C14 witness: the second of two segments holding candidates is the
\* target and gets two candidates; the first is as it was.
C14_Witness ==
  /\ call.op = FullSegment /\ ~call.thrown
  /\ Len(call.pre) = 2 /\ call.target = 2
  /\ call.pre[2].candidates # <<>>
  /\ Len(Written) = 2
  /\ segments[1] = call.pre[1]

\* C21 as stated: for the truncated blob [{"text": "abc the parser returns
\* an empty list, so FullSegment writes exactly the identity candidate equal
\* to the reading, and the call does not crash.
C21_TruncatedGivesFallback ==
  (call.op = FullSegment /\ call.json = TruncatedBlob) =>
    /\ ~call.thrown
    /\ call.candidates = <<>>
    /\ IsIdentityList(Written)

\* C21 amended: for the truncated blob [{"text": "abc the parser returns the
\* one record it was reading, text "abc" without count, so FullSegment
\* writes exactly one candidate "abc" covering the whole reading and no
\* fallback candidate, and the call does not crash.
C21_TruncatedGivesPartial ==
  (call.op = FullSegment /\ call.json = TruncatedBlob) =>
    /\ ~call.thrown
    /\ call.candidates = <<CandidateInfo(Str(<<"a","b","c">>), 0)>>
    /\ Len(Written) = 1
    /\ Written[1].value = Str(<<"a","b","c">>)
    /\ Written[1].key = call.key
    /\ Written[1].consumed_key_size = K
    /\ Written[1].cost = 0

\* C21 witness: the truncated blob reconciled against a reading of two
\* characters.
C21_Witness ==
  /\ call.op = FullSegment /\ call.json = TruncatedBlob
  /\ ~call.thrown
  /\ K = 2
  /\ Len(Written) = 1
  /\ Written[1].value = Str(<<"a","b","c">>)

(***************************************************************************)
(* ParseJsonCandidateArray, one loop iteration at a time                   *)
(***************************************************************************)
\* A string value as it is written in a blob: plain bytes, one-character
\* escapes (the byte after the backslash) and \u escapes (four hex digits).
PlainItems(bytes) == [i \in DOMAIN bytes |-> [kind |-> "byte", bytes |-> <<bytes[i]>>]]
EscItem(ch) == [kind |-> "esc", bytes |-> <<ch>>]
UItem(hex) == [kind |-> "u", bytes |-> hex]

RECURSIVE RenderItems(_)
RenderItems(items) ==
  IF items = <<>> THEN <<>>
  ELSE LET it == Head(items)
       IN (CASE it.kind = "byte" -> it.bytes
             [] it.kind = "esc" -> <<ChBackslash>> \o it.bytes
             [] it.kind = "u" -> <<ChBackslash, ChLowerU>> \o it.bytes)
          \o RenderItems(Tail(items))

\* A member of a record, "key": value. A value is a string, given by its
\* items, unless a bare token is given.
Member(key, items, token) == [key |-> key, items |-> items, token |-> token]

RECURSIVE Join(_, _)
Join(parts, glue) ==
  IF parts = <<>> THEN <<>>
  ELSE IF Len(parts) = 1 THEN parts[1]
  ELSE parts[1] \o glue \o Join(Tail(parts), glue)

RenderRecord(rec, sep) ==
  <<ChOpenBrace>>
  \o Join([i \in DOMAIN rec |->
             Quoted(rec[i].key) \o <<ChColon>> \o sep
             \o (IF rec[i].token = <<>> THEN Quoted(RenderItems(rec[i].items))
                 ELSE rec[i].token)],
          <<ChComma>> \o sep)
  \o <<ChCloseBrace>>

\* [{"text": "...", "correspondingCount": N}, ...], with sep = " " as
\* shown or compact with sep = "".
RenderDoc(doc, sep) ==
  <<ChOpenBracket>>
  \o Join([i \in DOMAIN doc |-> RenderRecord(doc[i], sep)], <<ChComma>> \o sep)
  \o <<ChCloseBracket>>

\* Text values: empty, plain, a 3-byte character, each escape the parser
\* honours, and \u escapes before a character, alone and at the end.
BlobTexts ==
  { <<>>,
    PlainItems(Str(<<"x">>)),
    PlainItems(<<230, 157, 177>>),
    PlainItems(Str(<<"a">>)) \o <<EscItem(ChLowerN)>> \o PlainItems(Str(<<"b">>)),
    <<EscItem(ChLowerT)>>,
    <<EscItem(ChLowerR), EscItem(ChBackslash)>>,
    <<EscItem(ChQuote)>> \o PlainItems(Str(<<"q">>)),
    <<UItem(Str(<<"3","0","4","2">>))>> \o PlainItems(Str(<<"z">>)),
    <<UItem(Str(<<"3","0","4","2">>))>>,
    PlainItems(Str(<<"a">>)) \o <<UItem(Str(<<"0","0","e","9">>))>> }

\* Counts: 0..MaxCount, INT_MAX, INT_MAX + 1 and 2^32 + 1.
BlobCounts ==
  { Decimal(c) : c \in 0..MaxCount }
  \cup { Str(<<"2","1","4","7","4","8","3","6","4","7">>),
         Str(<<"2","1","4","7","4","8","3","6","4","8">>),
         Str(<<"4","2","9","4","9","6","7","2","9","7">>) }

\* Records alone in their blob: text only, count only, both in either
\* order, the count also null or "5" (no digit run), and a member with an
\* unknown key in each place: "id" with a string holding , } and an escaped
\* quote, "rank" with the bare tokens true and 12.
RichRecords ==
  LET Text(t) == Member(KeyText, t, <<>>)
      Count(d) == Member(KeyCorrespondingCount, <<>>, d)
      x == Text(PlainItems(Str(<<"x">>)))
      one == Count(Decimal(1))
      counts == BlobCounts \cup { Str(<<"n","u","l","l">>), Quoted(Str(<<"5">>)) }
      unknown ==
        { Member(Str(<<"i","d">>),
                 PlainItems(<<ChComma, ChCloseBrace>>) \o <<EscItem(ChQuote)>>, <<>>),
          Member(Str(<<"r","a","n","k">>), <<>>, Str(<<"t","r","u","e">>)),
          Member(Str(<<"r","a","n","k">>), <<>>, Str(<<"1","2">>)) }
  IN { <<Text(t)>> : t \in BlobTexts }
     \cup { <<Count(d)>> : d \in BlobCounts }
     \cup { <<Text(t), Count(d)>> : t \in BlobTexts, d \in counts }
     \cup { <<Count(d), Text(t)>> : t \in BlobTexts, d \in counts }
     \cup UNION { { <<e>>, <<e, x, one>>, <<x, e, one>>, <<one, x, e>> } : e \in unknown }

\* Records of the blobs with several records: with text and count, with an
\* empty text, without text, and with the count first.
SmallRecords ==
  { << Member(KeyText, PlainItems(Str(<<"x">>)), <<>>),
       Member(KeyCorrespondingCount, <<>>, Decimal(1)) >>,
    << Member(KeyText, <<>>, <<>>),
       Member(KeyCorrespondingCount, <<>>, Decimal(MaxCount)) >>,
    << Member(KeyCorrespondingCount, <<>>, Decimal(MaxCount)) >>,
    << Member(KeyCorrespondingCount, <<>>, Decimal(0)),
       Member(KeyText, PlainItems(Str(<<"y">>)), <<>>) >> }

ParserDocs ==
  { <<rec>> : rec \in RichRecords }
  \cup UNION { [1..n -> SmallRecords] : n \in 0..MaxCands }

IsDigitRun(token) ==
  token # <<>> /\ \A i \in DOMAIN token : token[i] >= ChZero /\ token[i] <= ChNine

\* Every count of the document is a number.
WellFormedDoc(doc) ==
  \A i \in DOMAIN doc : \A j \in DOMAIN doc[i] :
    doc[i][j].key = KeyCorrespondingCount => IsDigitRun(doc[i][j].token)

\* Blobs that are no array of records.
MalformedBlobs ==
  OtherBlobs
  \cup { Str(<<"[", " ", ",", "\t", "\n", "{", " ", "\"", "t", "e", "x", "t", "\"", " ",
               ":", " ", "\"", "a", "\"", " ", "}", " ", ",", "\r", "]">>),
         Str(<<"[", "{", "\"", "t", "e", "x", "t", "\"", ":", "5", "}", "]">>),
         Str(<<"[", "{", "\"", "i", "d", "\"", ":", "{", "\"", "a", "\"", ":", "1", "}", "}",
               ",", "{", "\"", "t", "e", "x", "t", "\"", ":", "\"", "x", "\"", "}", "]">>),
         Str(<<"[", "{", "x", "}", "]">>),
         Str(<<"[", "[">>),
         Str(<<"[", ",", ",", "]", "{">>) }

\* The arguments of ParseJsonCandidateArray: rendered documents, every proper
\* prefix of the compact ones (truncated blobs) and the malformed blobs.
ParserBlobs ==
  { [json |-> RenderDoc(d, sep), doc |-> d, well_formed |-> WellFormedDoc(d)] :
      d \in ParserDocs, sep \in {<<>>, <<ChSpace>>} }
  \cup UNION { { [json |-> SubSeq(j, 1, n), doc |-> <<>>, well_formed |-> FALSE] :
                   n \in 0..(Len(j) - 1) }
               : j \in { RenderDoc(d, <<>>) : d \in ParserDocs } }
  \cup { [json |-> j, doc |-> <<>>, well_formed |-> FALSE] : j \in MalformedBlobs }

ParserInit ==
  /\ utf8_str = <<>>
  /\ char_count = 0
  /\ idx = IdxNoCalls
  /\ segments = <<>>
  /\ call = NoCall
  /\ dll_file = [found |-> FALSE, exports |-> {}]
  /\ loader = NoLoader
  /\ converters = <<>>
  /\ engine = NoEngine
  /\ registry = NoRegistry
  /\ \E b \in ParserBlobs :
       \E ub \in OverflowOutcomesFor(b.json) :
         blob = [json |-> b.json, doc |-> b.doc, well_formed |-> b.well_formed, ub |-> ub]
  /\ parser = ParserEntry(blob.json)
  /\ iterations = 0

\* One iteration of the loop over the array's elements (120-245).
OuterIteration ==
  /\ parser.phase = "array"
  /\ parser' = ArrayStep(blob.json, parser)
  /\ iterations' = iterations + 1
  /\ UNCHANGED <<idxVars, recVars, engVars, blob>>

\* One iteration of the loop over an object's contents (147-236).
InnerIteration ==
  /\ parser.phase = "object"
  /\ parser' = ObjectStep(blob.json, parser, blob.ub)
  /\ iterations' = iterations + 1
  /\ UNCHANGED <<idxVars, recVars, engVars, blob>>

ParserNext ==
  \/ OuterIteration
  \/ InnerIteration

SpecParser == ParserInit /\ [][ParserNext]_vars

(***************************************************************************)
(* Properties of the parser                                                *)
(***************************************************************************)
Returned == parser.phase = "done"

\* What a document says: the text a value stands for (the listed escapes
\* decoded, a \u escape standing for nothing), the digits of the count ("0"
\* when there is none), and the records with a text.
DecodedEscape(ch) ==
  CASE ch = ChLowerN -> ChNewline
    [] ch = ChLowerT -> ChTab
    [] ch = ChLowerR -> ChReturn
    [] OTHER -> ch

RECURSIVE Decoded(_)
Decoded(items) ==
  IF items = <<>> THEN <<>>
  ELSE LET it == Head(items)
       IN (CASE it.kind = "byte" -> it.bytes
             [] it.kind = "esc" -> <<DecodedEscape(it.bytes[1])>>
             [] it.kind = "u" -> <<>>)
          \o Decoded(Tail(items))

MembersOf(rec, key) == SelectSeq(rec, LAMBDA m : m.key = key)

SaidText(rec) ==
  LET t == MembersOf(rec, KeyText) IN IF t = <<>> THEN <<>> ELSE Decoded(t[1].items)

SaidDigits(rec) ==
  LET c == MembersOf(rec, KeyCorrespondingCount)
  IN IF c = <<>> \/ ~IsDigitRun(c[1].token) THEN Decimal(0) ELSE c[1].token

SaidRecords(doc) == SelectSeq(doc, LAMBDA rec : SaidText(rec) # <<>>)

\* The int n is the number the digits denote.
IsValueOf(n, digits) == n >= 0 /\ Decimal(n) = digits

\* C15: the parser terminates on every blob, well-formed, malformed or
\* truncated, and returns a list: every iteration of the outer and of the
\* inner loop either stops that loop or strictly advances the cursor, the
\* cursor never passes the end of the blob, and so the number of iterations
\* is bounded by the length of the blob.
C15_Terminates ==
  /\ [][ \/ parser'.pos > parser.pos
         \/ parser'.phase = "done"
         \/ (parser.phase = "object" /\ parser'.phase = "array" /\ parser'.pos >= parser.pos) ]_vars
  /\ [](parser.pos <= Len(blob.json))
  /\ [](iterations <= (2 * Len(blob.json)) + 1)

\* C15 witness: the scan of a truncated blob has returned after four
\* iterations or more.
C15_Witness ==
  /\ Returned
  /\ blob.doc = <<>>
  /\ iterations >= 4
  /\ parser.pos = Len(blob.json)
  /\ parser.result # <<>>

\* C16: for a well-formed blob [{"text": t, "correspondingCount": n}, ...]
\* (keys in either order, unknown keys with string or bare values allowed)
\* the parser returns exactly the records with a non-empty text, in blob
\* order, each with its text and its coverage n (0 without count key).
C16_WellFormedRecords ==
  (Returned /\ blob.well_formed) =>
    LET said == SaidRecords(blob.doc)
    IN /\ Len(parser.result) = Len(said)
       /\ \A i \in DOMAIN parser.result :
            /\ parser.result[i].text # <<>>
            /\ i <= Len(said) =>
                 /\ parser.result[i].text = SaidText(said[i])
                 /\ IsValueOf(parser.result[i].corresponding_count, SaidDigits(said[i]))

\* C19: the value parsed for "correspondingCount" is the decimal value of
\* the digit run after the key, 0 when the run is empty, and never negative
\* however long the run is.
C19_CountValue ==
  /\ parser.info.corresponding_count >= 0
  /\ \A i \in DOMAIN parser.result : parser.result[i].corresponding_count >= 0
  /\ (Returned /\ Len(blob.doc) = 1 /\ blob.doc[1][1].key = KeyText
        /\ SaidText(blob.doc[1]) # <<>>) =>
       /\ Len(parser.result) = 1
       /\ IsValueOf(parser.result[1].corresponding_count, SaidDigits(blob.doc[1]))

\* C20: in a "text" value a \u escape consumes the u and exactly the four
\* hex digits after it and adds no character, the escapes \n \t \r \\ \"
\* add their decoded character, and what follows an escape is read normally.
C20_Escapes ==
  (Returned /\ Len(blob.doc) = 1 /\ MembersOf(blob.doc[1], KeyText) # <<>>
     /\ (MembersOf(blob.doc[1], KeyCorrespondingCount) # <<>>
           => blob.doc[1][1].key = KeyText)) =>
    LET text == Decoded(MembersOf(blob.doc[1], KeyText)[1].items)
    IN IF text = <<>> THEN parser.result = <<>>
       ELSE Len(parser.result) = 1 /\ parser.result[1].text = text

\* C20 witness: "あz" was read as "z".
C20_Witness ==
  /\ Returned
  /\ Len(blob.doc) = 1
  /\ MembersOf(blob.doc[1], KeyText) # <<>>
  /\ MembersOf(blob.doc[1], KeyText)[1].items =
       <<UItem(Str(<<"3","0","4","2">>))>> \o PlainItems(Str(<<"z">>))
  /\ Len(parser.result) = 1
  /\ parser.result[1].text = Str(<<"z">>)

\* C23: the cursor pos never exceeds the blob length and every read of
\* json[pos] happens with pos < json.size(), on every input: the cursor of
\* the scan is inside the blob or at its end in every state, each inner loop
\* (whitespace, key, string value, digits, unknown value) entered at any
\* position of the blob leaves the cursor inside the blob or at its end, and
\* the byte read after a backslash, and the last hex digit skipped after
\* backslash-u, lie before the end of the blob.
C23_CursorInBounds ==
  LET json == blob.json
      size == Len(json)
  IN /\ parser.pos <= size
     /\ \A pos \in 0..size :
          /\ SkipWhitespace(json, pos) <= size
          /\ SkipChars(json, pos, {ChSpace, ChColon}) <= size
          /\ ReadKeyLoop(json, pos, <<>>).pos <= size
          /\ ReadTextLoop(json, pos, <<>>).pos <= size
          /\ ReadIntLoop(json, pos, 0, blob.ub).pos <= size
          /\ SkipUnknownValue(json, pos) <= size
          /\ (pos < size /\ json[pos + 1] # ChQuote) => TextEscape(json, pos).pos < size

\* C23 witness: the scan has returned with the cursor at the end of a blob
\* that ends inside the hex digits of a backslash-u escape of a "text" value.
C23_Witness ==
  /\ Returned
  /\ parser.pos = Len(blob.json)
  /\ \E p \in DOMAIN blob.json :
       /\ p + 1 < Len(blob.json)
       /\ p + 4 >= Len(blob.json)
       /\ blob.json[p] = ChBackslash
       /\ blob.json[p + 1] = ChLowerU
       /\ \A q \in (p + 2)..Len(blob.json) : blob.json[q] # ChQuote
       /\ \E k \in 1..p : ReadKeyLoop(blob.json, k, <<>>).key = KeyText
                           /\ \A q \in (k + Len(KeyText) + 4)..p : blob.json[q] # ChQuote
  /\ parser.result # <<>>

(***************************************************************************)
(* Converter lifecycle and Convert                                         *)
(***************************************************************************)
MaxConverters == 2   \* converter objects that can be alive at once

\* The installed library: none (or not Windows), every combination of the
\* optional entry points with the essential ones, one with the Zenzai entry
\* points too, and one without GetCandidates.
DllFiles ==
  { [found |-> FALSE, exports |-> {}] }
  \cup { [found |-> TRUE, exports |-> EssentialProcs \cup opt] : opt \in SUBSET OptionalProcs }
  \cup { [found |-> TRUE, exports |-> LoaderProcs],
         [found |-> TRUE, exports |-> (LoaderProcs \ {"GetCandidates"})] }

\* AzooKeyConfig values handed to the constructor.
Configs ==
  { [dictionary_path |-> <<>>, memory_path |-> <<>>, zenzai_enabled |-> FALSE,
     zenzai_inference_limit |-> 10, zenzai_weight_path |-> <<>>],
    [dictionary_path |-> <<>>, memory_path |-> <<>>, zenzai_enabled |-> TRUE,
     zenzai_inference_limit |-> 10, zenzai_weight_path |-> Str(<<"w">>)] }

\* The readings of the caller's conversion segments, by position.
ConvertReadings == << Str(<<"a">>), <<227, 129, 130, 97>>, <<>> >>
ConvertKeyAt(shift, i) == ConvertReadings[(((i - 1) + shift) % Len(ConvertReadings)) + 1]

\* The caller's segments before Convert: each with a reading and the
\* candidates of an earlier conversion.
ConvertSegments ==
  { [i \in 1..n |-> [StaleSegment(i) EXCEPT !.key = ConvertKeyAt(shift, i)]] :
      n \in 0..MaxSegments, shift \in {0, 2} }

\* What GetCandidates returns: a null pointer, or a NUL-terminated buffer
\* (json is the string std::string(candidates_json) copies out of it).
NullResponse == [null |-> TRUE, json |-> <<>>]
Responses ==
  { NullResponse,
    [null |-> FALSE, json |-> ArrayJson(<<Decimal(1), <<>>>>)],
    [null |-> FALSE, json |-> Str(<<"x">>)] }

\* One response for each segment the engine is asked about.
ResponseChoices(segs) ==
  { f \in [DOMAIN segs -> Responses] :
      \A i \in DOMAIN segs : segs[i].key = <<>> => f[i] = NullResponse }

\* The constructor: engine calls and initialized_.
Constructed(ldr, eng, config) ==
  IF ~IsLoaded(ldr)
  THEN [converter |-> [alive |-> TRUE, initialized_ |-> FALSE], engine |-> eng]
  ELSE LET e1 == IF "Initialize" \in ldr.procs THEN EngineInitialize(eng) ELSE eng
           e2 == IF "SetZenzaiEnabled" \in ldr.procs
                 THEN EngineSetZenzaiEnabled(e1, config.zenzai_enabled) ELSE e1
           e3 == IF "SetZenzaiInferenceLimit" \in ldr.procs
                 THEN EngineSetZenzaiInferenceLimit(e2, config.zenzai_inference_limit) ELSE e2
           e4 == IF "SetZenzaiWeightPath" \in ldr.procs /\ config.zenzai_weight_path # <<>>
                 THEN EngineSetZenzaiWeightPath(e3, config.zenzai_weight_path) ELSE e3
       IN [converter |-> [alive |-> TRUE, initialized_ |-> TRUE], engine |-> e4]

\* WriteZenzaiStatusToRegistry, when RegCreateKeyExW succeeds.
ZenzaiStatus(config) ==
  [written |-> TRUE,
   ZenzaiActive |-> config.zenzai_enabled /\ config.zenzai_weight_path # <<>>,
   ZenzaiWeightPath |-> config.zenzai_weight_path]

\* The destructor: Shutdown when this converter was initialized.
Destroyed(ldr, eng, converter) ==
  IF converter.initialized_ /\ "Shutdown" \in ldr.procs THEN EngineShutdown(eng) ELSE eng

\* Mutant: an empty collection is not refused.
ConvertRefusesNoEmpty(converter, segments_null, ldr, segs) ==
  \/ ~converter.initialized_
  \/ segments_null
  \/ ~IsLoaded(ldr)

\* Convert returns false before any engine call.
ConvertRefuses(converter, segments_null, ldr, segs) ==
  \/ ~converter.initialized_
  \/ segments_null
  \/ ~IsLoaded(ldr)
  \/ Len(segs) = 0

\* Process each segment individually: the loop over segment_keys.
RECURSIVE ConvertLoop(_, _, _, _, _, _)
ConvertLoop(ldr, segment_keys, i, st, responses, ub) ==
  IF i > Len(segment_keys) \/ st.thrown THEN st
  ELSE LET key == segment_keys[i]
       IN IF key = <<>> THEN ConvertLoop(ldr, segment_keys, i + 1, st, responses, ub)
          ELSE LET e1 == IF "ClearText" \in ldr.procs
                         THEN EngineClearText(st.engine) ELSE st.engine
                   e2 == IF "AppendText" \in ldr.procs
                         THEN EngineAppendText(e1, key) ELSE e1
               IN IF "GetCandidates" \notin ldr.procs
                  THEN ConvertLoop(ldr, segment_keys, i + 1,
                                   [st EXCEPT !.engine = e2], responses, ub)
                  ELSE LET e3 == EngineGetCandidates(e2, responses[i])
                       IN IF responses[i].null
                          THEN ConvertLoop(ldr, segment_keys, i + 1,
                                           [st EXCEPT !.engine = e3], responses, ub)
                          ELSE LET json_str == responses[i].json
                                   e4 == IF "FreeString" \in ldr.procs
                                         THEN EngineFreeString(e3) ELSE e3
                                   r == SegmentAfterParse(
                                          ParseJsonCandidateArray(json_str, ub),
                                          key, st.segments[i])
                               IN ConvertLoop(ldr, segment_keys, i + 1,
                                    [segments |-> [st.segments EXCEPT ![i] = r.segment],
                                     engine |-> e4, thrown |-> r.thrown],
                                    responses, ub)

ConvInit ==
  /\ utf8_str = <<>>
  /\ char_count = 0
  /\ idx = IdxNoCalls
  /\ segments \in ConvertSegments
  /\ call = NoCall
  /\ dll_file \in DllFiles
  /\ loader = NoLoader
  /\ converters = [c \in 1..MaxConverters |-> NoConverter]
  /\ engine = NoEngine
  /\ registry = NoRegistry
  /\ NoScan

\* new AzooKeyImmutableConverter(config)
Construct ==
  /\ call.op = "none"
  /\ \E c \in DOMAIN converters, config \in Configs, reg_ok \in BOOLEAN :
       /\ ~converters[c].alive
       /\ LET ldr == GetInstance(loader, dll_file)
              r == Constructed(ldr, [engine EXCEPT !.calls = <<>>], config)
          IN /\ loader' = ldr
             /\ converters' = [converters EXCEPT ![c] = r.converter]
             /\ engine' = r.engine
             /\ registry' = IF r.converter.initialized_ /\ reg_ok
                            THEN ZenzaiStatus(config) ELSE registry
  /\ UNCHANGED <<idxVars, recVars, parVars, dll_file>>

\* delete converter
Destroy ==
  /\ call.op = "none"
  /\ \E c \in DOMAIN converters :
       /\ converters[c].alive
       /\ engine' = Destroyed(GetInstance(loader, dll_file),
                              [engine EXCEPT !.calls = <<>>], converters[c])
       /\ converters' = [converters EXCEPT ![c] = NoConverter]
  /\ UNCHANGED <<idxVars, recVars, parVars, dll_file, loader, registry>>

\* converter->Convert(request, segments), segments being null or the
\* caller's collection.
Convert ==
  /\ call.op = "none"
  /\ \E c \in DOMAIN converters, segments_null \in BOOLEAN :
       /\ converters[c].alive
       /\ IF ConvertRefuses(converters[c], segments_null, loader, segments)
          THEN /\ call' = [op |-> "Convert", converter |-> c,
                           segments_null |-> segments_null,
                           responses |-> <<>>, thrown |-> FALSE, ret |-> FALSE]
               /\ engine' = [engine EXCEPT !.calls = <<>>]
               /\ UNCHANGED segments
          ELSE \E responses \in ResponseChoices(segments) :
                 \E ub \in {"wrap"} \cup UNION { OverflowOutcomesFor(responses[i].json) :
                                                    i \in DOMAIN responses } :
                   LET segment_keys == [i \in DOMAIN segments |-> segments[i].key]
                       st == ConvertLoop(loader, segment_keys, 1,
                                         [segments |-> segments,
                                          engine |-> [engine EXCEPT !.calls = <<>>],
                                          thrown |-> FALSE],
                                         responses, ub)
                   IN /\ segments' = st.segments
                      /\ engine' = st.engine
                      /\ call' = [op |-> "Convert", converter |-> c,
                                  segments_null |-> segments_null,
                                  responses |-> responses,
                                  thrown |-> st.thrown, ret |-> TRUE]
  /\ UNCHANGED <<idxVars, parVars, dll_file, loader, converters, registry>>

ConvNext ==
  \/ Construct
  \/ Destroy
  \/ Convert

SpecConvert == ConvInit /\ [][ConvNext]_vars

\* C9: Convert returns false exactly when the converter is not initialized,
\* the library is not loaded, the segments argument is absent or there is no
\* conversion segment; otherwise it returns true, whatever the engine
\* returned for a segment.
C9_ConvertResult ==
  call.op = "Convert" =>
    /\ ~call.thrown
    /\ call.ret = FALSE <=>
         \/ ~converters[call.converter].initialized_
         \/ ~loader.dll_handle
         \/ call.segments_null
         \/ segments = <<>>

\* C9 witness: Convert returned true although GetCandidates returned a null
\* pointer for one segment and an unparsable blob for another.
C9_Witness ==
  /\ call.op = "Convert" /\ call.ret
  /\ Len(segments) = 2
  /\ \E i, j \in DOMAIN call.responses :
       /\ segments[i].key # <<>> /\ call.responses[i].null
       /\ segments[j].key # <<>> /\ ~call.responses[j].null
       /\ ParseJsonCandidateArray(call.responses[j].json, "wrap") = <<>>

\* C10: whenever Convert returns true, every conversion segment with a
\* non-empty reading holds a non-empty candidate list produced by this call;
\* when the engine returned nothing usable (a null blob included) it is the
\* identity candidate equal to the reading, never an empty or left-over list.
C10_NoLeftOver ==
  (call.op = "Convert" /\ call.ret) =>
    \A i \in DOMAIN segments :
      segments[i].key # <<>> =>
        /\ segments[i].candidates # <<>>
        /\ \A j \in DOMAIN segments[i].candidates :
             segments[i].candidates[j].key = segments[i].key
        /\ (call.responses[i].null
            \/ ParseJsonCandidateArray(call.responses[i].json, "wrap") = <<>>)
             => /\ Len(segments[i].candidates) = 1
                /\ segments[i].candidates[1].value = segments[i].key

\* The entry points called by Convert, in order, and the segments it sent to
\* the engine.
CallsOf(fn) == { j \in DOMAIN engine.calls : engine.calls[j].fn = fn }
Asked == { i \in DOMAIN segments : segments[i].key # <<>> }

\* C17: within Convert the engine calls for a segment are ClearText,
\* AppendText(reading), GetCandidates: every AppendText directly follows a
\* ClearText, so the engine buffer never holds the text of more than one
\* segment, whatever library the loader accepted.
C17_ClearBeforeAppend ==
  (call.op = "Convert" /\ call.ret) =>
    /\ \A j \in CallsOf("AppendText") :
         /\ j > 1 /\ engine.calls[j - 1].fn = "ClearText"
         /\ j < Len(engine.calls) /\ engine.calls[j + 1].fn = "GetCandidates"
    /\ Cardinality(CallsOf("AppendText")) = Cardinality(Asked)
    /\ engine.text \in {<<>>} \cup { segments[i].key : i \in Asked }

\* C18: every non-null buffer returned by GetCandidates during Convert is
\* released by FreeString exactly once, right after it was copied and before
\* the next engine call, and none is left unreleased when Convert returns.
C18_BuffersReleased ==
  (call.op = "Convert" /\ call.ret) =>
    /\ engine.buffers = 0
    /\ \A j \in CallsOf("FreeString") :
         j > 1 /\ engine.calls[j - 1].fn = "GetCandidates"
    /\ Cardinality(CallsOf("FreeString")) =
         Cardinality({ i \in Asked : ~call.responses[i].null })

\* C22: over any sequence of constructing converters, calling Convert and
\* destroying converters on the one shared loader, no ClearText, AppendText
\* or GetCandidates call finds the engine shut down (Shutdown called with no
\* later Initialize), and Shutdown is only ever called after Initialize.
C22_NoCallAfterShutdown ==
  \A j \in DOMAIN engine.calls :
    /\ engine.calls[j].fn \in {"ClearText", "AppendText", "GetCandidates"}
         => engine.calls[j].session # "shutdown"
    /\ engine.calls[j].fn = "Shutdown" => engine.calls[j].session # "none"
====
